---- MODULE Spec2Model ----
(***************************************************************************)
(* Model of src/variance-example.ts: the generic validate / process /      *)
(* transform pipeline, in its two variants:                                *)
(*   - "entity": class BaseDataProcessor<T extends Entity>  (lines 63-147) *)
(*   - "event" : createEventProcessor<T extends BaseEvent>  (lines 265-336)*)
(*                                                                         *)
(* Strings are modelled as sequences of tokens, so that Array.join is a    *)
(* real concatenation.  Elapsed time (summary.duration) is not modelled.   *)
(* An async function runs synchronously up to its next await; every        *)
(* action below is one such synchronous segment of process.                *)
(***************************************************************************)
EXTENDS Integers, Sequences, FiniteSets, TLC

\* ------------------------------------------------------------------ bounds
MaxLen == 3        \* longest input of a process / transform call (one call)
MaxRules == 2      \* longest businessRules list
MaxLenConc == 2    \* longest input of each of two overlapping calls

Calls == {1, 2}

VARIABLES
    variant,        \* which processor: "entity" or "event"
    validator,      \* the caller-supplied validator (constructor argument)
    businessRules,  \* the rule list (constructor argument; <<>> for "event")
    data,           \* data[c]: the argument of process call c
    pc,             \* pc[c]: where call c is suspended
    idx,            \* idx[c]: position of the for-of loop (1-based)
    pending,        \* pending[c]: the rule applications call c has in flight
    processedItem,  \* processedItem[c]: local of applyBusinessRules
    settled,        \* settled[c]: outcome of the applyBusinessRules promise
    processed,      \* the processed arrays
    errors,         \* the errors arrays
    result,         \* result[c]: what the promise of call c settled with
    log,            \* log[c]: history of call c (validate/start/settle/final)
    vres,           \* last validate(item) call and its outcome
    tres            \* last transform(data, transformer) call and its outcome

vars == <<variant, validator, businessRules, data, pc, idx, pending,
          processedItem, settled, processed, errors, result, log, vres, tres>>

\* ------------------------------------------------------------- data model
Vals == 0 .. 2

\* interface Entity plus one domain field
EntityItems == [id : {"", "x1"}, createdAt : {0, 1}, updatedAt : {0, 1}, val : Vals]

\* type BaseEvent plus one domain field
EventItems == [id : {"", "x1"}, eventType : {"", "userLogin"}, val : Vals]

GoodEntity(v) == [id |-> "x1", createdAt |-> 1, updatedAt |-> 1, val |-> v]

GoodEvent(v) == [id |-> "x1", eventType |-> "userLogin", val |-> v]

\* the items process is run on: well-formed ones and one without identifier
ProcItems(vt) ==
    IF vt = "entity"
    THEN {GoodEntity(v) : v \in Vals} \cup {[GoodEntity(0) EXCEPT !.id = ""]}
    ELSE {GoodEvent(v) : v \in Vals} \cup {[GoodEvent(0) EXCEPT !.id = ""]}

AllItems(vt) == IF vt = "entity" THEN EntityItems ELSE EventItems

SeqsUpTo(S, n) == UNION {[1 .. m -> S] : m \in 0 .. n}

\* a thrown value: an Error with a message, or undefined / null
ErrorFault(msg) == [kind |-> "Error", message |-> msg]

NullishFault == [kind |-> "nullish", message |-> <<>>]

NoFault == [kind |-> "none", message |-> <<>>]

\* reading .message of undefined / null raises this
TypeErrorFault == ErrorFault(<<"Cannot read properties of undefined">>)

\* Array.prototype.join(', ') on strings modelled as token sequences
RECURSIVE Join(_)
Join(strs) ==
    IF strs = <<>> THEN <<>>
    ELSE IF Len(strs) = 1 THEN strs[1]
    ELSE strs[1] \o <<", ">> \o Join(Tail(strs))

\* ------------------------------------------------- caller-supplied inputs
Validators == {"always", "positive", "silent", "throwing"}

\* validator(item): [threw, isValid, errors, fault]
CustomValidate(name, item) ==
    CASE name = "always" ->
           [threw |-> FALSE, isValid |-> TRUE, errors |-> <<>>, fault |-> NoFault]
      [] name = "positive" ->
           [threw |-> FALSE, isValid |-> item.val > 0,
            errors |-> IF item.val > 0 THEN <<>> ELSE << <<"Value must be positive">> >>,
            fault |-> NoFault]
      [] name = "silent" ->
           [threw |-> FALSE, isValid |-> item.val > 0, errors |-> <<>>, fault |-> NoFault]
      [] name = "throwing" ->
           IF item.val = 2
           THEN [threw |-> TRUE, isValid |-> FALSE, errors |-> <<>>,
                 fault |-> ErrorFault(<<"bad item">>)]
           ELSE [threw |-> FALSE, isValid |-> TRUE, errors |-> <<>>, fault |-> NoFault]

RuleNames == {"inc", "dbl", "boom", "nil"}

\* rule.apply(item): how its promise settles
RuleApply(name, item) ==
    CASE name = "inc" ->
           [ok |-> TRUE, value |-> [item EXCEPT !.val = (@ + 1) % 3], fault |-> NoFault]
      [] name = "dbl" ->
           [ok |-> TRUE, value |-> [item EXCEPT !.val = (2 * @) % 3], fault |-> NoFault]
      [] name = "boom" ->
           IF item.val = 2
           THEN [ok |-> FALSE, value |-> item, fault |-> ErrorFault(<<"boom">>)]
           ELSE [ok |-> TRUE, value |-> item, fault |-> NoFault]
      [] name = "nil" ->
           IF item.val = 2
           THEN [ok |-> FALSE, value |-> item, fault |-> NullishFault]
           ELSE [ok |-> TRUE, value |-> item, fault |-> NoFault]

\* rule lists without repetition, up to n rules
RuleLists(n) ==
    {rs \in SeqsUpTo(RuleNames, n) : \A a, b \in 1 .. Len(rs) : a # b => rs[a] # rs[b]}

\* ---------------------------------------------------------------- validate
\* the fixed structural check of validate (lines 118-120 / 318-319)
StructuralErrors(vt, item) ==
    IF vt = "entity"
    THEN (IF item.id = "" THEN << <<"ID is required">> >> ELSE <<>>)
         \o (IF item.createdAt = 0 THEN << <<"Created date is required">> >> ELSE <<>>)
         \o (IF item.updatedAt = 0 THEN << <<"Updated date is required">> >> ELSE <<>>)
    ELSE (IF item.id = "" THEN << <<"ID is required">> >> ELSE <<>>)
         \o (IF item.eventType = "" THEN << <<"Event type is required">> >> ELSE <<>>)

\* errors.push(...customValidation.errors) under if (!customValidation.isValid)
CombineErrors(structural, custom) ==
    IF ~custom.isValid THEN structural \o custom.errors ELSE structural

\* validate(item) of either variant; a fault of the validator propagates
Validate(vt, name, item) ==
    LET custom == CustomValidate(name, item)
        errs == CombineErrors(StructuralErrors(vt, item), custom)
    IN  IF custom.threw THEN custom
        ELSE [threw |-> FALSE, isValid |-> Len(errs) = 0, errors |-> errs,
              fault |-> NoFault]

\* --------------------------------------------------------------- transform
Mappers == {"getId", "getVal", "strict"}

\* transformer(item): [threw, value, fault]
MapperApply(name, item) ==
    CASE name = "getId" -> [threw |-> FALSE, value |-> [id |-> item.id], fault |-> NoFault]
      [] name = "getVal" -> [threw |-> FALSE, value |-> [val |-> item.val], fault |-> NoFault]
      [] name = "strict" ->
           IF item.id = ""
           THEN [threw |-> TRUE, value |-> <<>>, fault |-> ErrorFault(<<"no id">>)]
           ELSE [threw |-> FALSE, value |-> [val |-> item.val], fault |-> NoFault]

MapItemsSkipInvalid(items, name) ==
    LET kept == SelectSeq(items, LAMBDA it : it.id # "")
    IN  [i \in 1 .. Len(kept) |-> MapperApply(name, kept[i]).value]

\* data.map(transformer): element i is transformer(data[i])
MapItems(items, name) == [i \in 1 .. Len(items) |-> MapperApply(name, items[i]).value]

\* transform(data, transformer); a fault of the transformer propagates
Transform(items, name) ==
    LET bad == {i \in 1 .. Len(items) : MapperApply(name, items[i]).threw}
    IN  IF bad # {}
        THEN [threw |-> TRUE, value |-> <<>>,
              fault |-> MapperApply(name, items[CHOOSE i \in bad : \A j \in bad : i <= j]).fault]
        ELSE [threw |-> FALSE, value |-> MapItems(items, name), fault |-> NoFault]

\* ----------------------------------------------------------------- process
\* placeholders for locals not yet assigned
NoItem == [id |-> ""]

NoSettle == [ok |-> TRUE, value |-> NoItem, fault |-> NoFault]

\* one entry of the history of a call
Ev(e, i, k, to) == [ev |-> e, i |-> i, k |-> k, to |-> to]

ValidationError(item, errs) ==
    [item |-> item, error |-> Join(errs), code |-> "VALIDATION_ERROR"]

ProcessingError(item, fault) ==
    [item |-> item, error |-> fault.message, code |-> "PROCESSING_ERROR"]

NoResult ==
    [status |-> "none", processed |-> <<>>, errors |-> <<>>,
     summary |-> [total |-> 0, successful |-> 0, failed |-> 0], fault |-> NoFault]

SummaryAllSuccessful(d, proc, errs) ==
    [total |-> Len(d), successful |-> Len(d), failed |-> Len(errs)]

\* the summary of the returned object (lines 105-110 / 306-311)
Summary(d, proc, errs) ==
    [total |-> Len(d), successful |-> Len(proc), failed |-> Len(errs)]

\* return { processed, errors, summary } (lines 102-111 / 303-312)
Return(L, d) ==
    [L EXCEPT !.pc = "returned",
              !.result = [status |-> "returned", processed |-> L.processed,
                          errors |-> L.errors,
                          summary |-> Summary(d, L.processed, L.errors),
                          fault |-> NoFault]]

PushValidationErrorFallsThrough(L, item, errs) ==
    [L EXCEPT !.errors = Append(@, ValidationError(item, errs)),
              !.processed = Append(@, item),
              !.log = Append(@, Ev("final", L.idx, 0, "errors")),
              !.idx = @ + 1]

\* errors.push({item, error: validation.errors.join(', '), code}); continue
PushValidationError(L, item, errs) ==
    [L EXCEPT !.errors = Append(@, ValidationError(item, errs)),
              !.log = Append(@, Ev("final", L.idx, 0, "errors")),
              !.idx = @ + 1]

\* processed.push(processedItem), end of the loop body
PushProcessed(L, value) ==
    [L EXCEPT !.processed = Append(@, value),
              !.log = Append(@, Ev("final", L.idx, 0, "processed")),
              !.idx = @ + 1]

\* the catch block: (error as Error).message is read from the thrown value;
\* on undefined / null that read raises out of process
Catch(L, item, fault) ==
    IF fault.kind = "nullish"
    THEN [L EXCEPT !.pc = "rejected",
                   !.result = [NoResult EXCEPT !.status = "rejected",
                                               !.fault = TypeErrorFault]]
    ELSE [L EXCEPT !.errors = Append(@, ProcessingError(item, fault)),
                   !.log = Append(@, Ev("final", L.idx, 0, "errors")),
                   !.idx = @ + 1]

StartRuleAll(L, k) ==
    [L EXCEPT !.pc = "awaitRule", !.pending = k .. Len(businessRules),
              !.log = Append(@, Ev("start", L.idx, k, ""))]

\* applyBusinessRules calls rule k and awaits its promise
StartRule(L, k) ==
    [L EXCEPT !.pc = "awaitRule", !.pending = {k},
              !.log = Append(@, Ev("start", L.idx, k, ""))]

\* applyBusinessRules(item) up to its first await, or to its return
StartApply(L, item, rules) ==
    IF Len(rules) = 0
    THEN [L EXCEPT !.pc = "awaitApply", !.processedItem = item,
                   !.settled = [ok |-> TRUE, value |-> item, fault |-> NoFault]]
    ELSE StartRule([L EXCEPT !.processedItem = item], 1)

\* what process validates an item with
ProcessValidation(vt, name, item) ==
    IF vt = "entity" THEN Validate(vt, name, item) ELSE CustomValidate(name, item)

\* the for-of loop from position L.idx up to the next await or the return
RECURSIVE Loop(_, _, _, _, _)
Loop(L, d, vt, name, rules) ==
    IF L.pc = "rejected" THEN L
    ELSE IF L.idx > Len(d) THEN Return(L, d)
    ELSE LET item == d[L.idx]
             v == ProcessValidation(vt, name, item)
             L1 == [L EXCEPT !.log = Append(@, Ev("validate", L.idx, 0, ""))]
         IN  IF v.threw THEN Loop(Catch(L1, item, v.fault), d, vt, name, rules)
             ELSE IF ~v.isValid
             THEN Loop(PushValidationError(L1, item, v.errors), d, vt, name, rules)
             ELSE IF vt = "entity" THEN StartApply(L1, item, rules)
             ELSE Loop(PushProcessed(L1, item), d, vt, name, rules)

RuleSettledReversed(L, rules) ==
    LET k == CHOOSE x \in L.pending : TRUE
        out == RuleApply(rules[Len(rules) + 1 - k], L.processedItem)
        L1 == [L EXCEPT !.log = Append(@, Ev("settle", L.idx, k, "")), !.pending = @ \ {k}]
    IN  IF ~out.ok
        THEN [L1 EXCEPT !.pc = "awaitApply", !.settled = out]
        ELSE IF k < Len(rules)
        THEN StartRule([L1 EXCEPT !.processedItem = out.value], k + 1)
        ELSE [L1 EXCEPT !.pc = "awaitApply", !.processedItem = out.value,
                        !.settled = out]

\* the promise of rule k settled: applyBusinessRules resumes
RuleSettled(L, rules) ==
    LET k == CHOOSE x \in L.pending : TRUE
        out == RuleApply(rules[k], L.processedItem)
        L1 == [L EXCEPT !.log = Append(@, Ev("settle", L.idx, k, "")), !.pending = @ \ {k}]
    IN  IF ~out.ok
        THEN [L1 EXCEPT !.pc = "awaitApply", !.settled = out]
        ELSE IF k < Len(rules)
        THEN StartRule([L1 EXCEPT !.processedItem = out.value], k + 1)
        ELSE [L1 EXCEPT !.pc = "awaitApply", !.processedItem = out.value,
                        !.settled = out]

\* the promise of applyBusinessRules settled: process resumes
ApplySettled(L, d, vt, name, rules) ==
    IF L.settled.ok
    THEN Loop(PushProcessed(L, L.settled.value), d, vt, name, rules)
    ELSE Loop(Catch(L, d[L.idx], L.settled.fault), d, vt, name, rules)

\* const startTime, processed = [], errors = [] and the first loop segment
StartProcess(d, vt, name, rules) ==
    Loop([pc |-> "running", idx |-> 1, pending |-> {}, processedItem |-> NoItem,
          settled |-> NoSettle,
          processed |-> <<>>, errors |-> <<>>, result |-> NoResult, log |-> <<>>],
         d, vt, name, rules)

\* ------------------------------------------------------------ state machine
\* processed and errors are consts declared inside process (lines 71-72,
\* 271-272): call c pushes to arrays of its own
AccShared(c) == 1

Acc(c) == c

Locals(c) ==
    [pc |-> pc[c], idx |-> idx[c], pending |-> pending[c],
     processedItem |-> processedItem[c], settled |-> settled[c],
     processed |-> processed[Acc(c)], errors |-> errors[Acc(c)],
     result |-> result[c], log |-> log[c]]

Store(c, L) ==
    /\ pc' = [pc EXCEPT ![c] = L.pc]
    /\ idx' = [idx EXCEPT ![c] = L.idx]
    /\ pending' = [pending EXCEPT ![c] = L.pending]
    /\ processedItem' = [processedItem EXCEPT ![c] = L.processedItem]
    /\ settled' = [settled EXCEPT ![c] = L.settled]
    /\ processed' = [processed EXCEPT ![Acc(c)] = L.processed]
    /\ errors' = [errors EXCEPT ![Acc(c)] = L.errors]
    /\ result' = [result EXCEPT ![c] = L.result]
    /\ log' = [log EXCEPT ![c] = L.log]

NoValidate == [called |-> FALSE, item |-> NoItem,
               out |-> [threw |-> FALSE, isValid |-> FALSE, errors |-> <<>>,
                        fault |-> NoFault]]

NoTransform == [called |-> FALSE, items |-> <<>>, mapper |-> "getId",
                out |-> [threw |-> FALSE, value |-> <<>>, fault |-> NoFault]]

\* a constructed processor and no call made yet
InitProcessor(ruleLists) ==
    /\ variant \in {"entity", "event"}
    /\ validator \in Validators
    /\ businessRules \in (IF variant = "entity" THEN ruleLists ELSE {<<>>})
    /\ idx = [c \in Calls |-> 1]
    /\ pending = [c \in Calls |-> {}]
    /\ processedItem = [c \in Calls |-> NoItem]
    /\ settled = [c \in Calls |-> NoSettle]
    /\ processed = [c \in Calls |-> <<>>]
    /\ errors = [c \in Calls |-> <<>>]
    /\ result = [c \in Calls |-> NoResult]
    /\ log = [c \in Calls |-> <<>>]
    /\ vres = NoValidate
    /\ tres = NoTransform

\* one process call on any input
Init ==
    /\ InitProcessor(RuleLists(MaxRules))
    /\ \E d \in SeqsUpTo(ProcItems(variant), MaxLen) :
           data = [c \in Calls |-> IF c = 1 THEN d ELSE <<>>]
    /\ pc = [c \in Calls |-> IF c = 1 THEN "ready" ELSE "unused"]

\* process(data) is called: runs to its first await, or to its return
Call(c) ==
    /\ pc[c] = "ready"
    /\ Store(c, StartProcess(data[c], variant, validator, businessRules))
    /\ UNCHANGED <<variant, validator, businessRules, data, vres, tres>>

\* the promise of the awaited rule settles
RuleSettles(c) ==
    /\ pc[c] = "awaitRule"
    /\ Store(c, RuleSettled(Locals(c), businessRules))
    /\ UNCHANGED <<variant, validator, businessRules, data, vres, tres>>

\* the promise of applyBusinessRules settles
ApplySettles(c) ==
    /\ pc[c] = "awaitApply"
    /\ Store(c, ApplySettled(Locals(c), data[c], variant, validator, businessRules))
    /\ UNCHANGED <<variant, validator, businessRules, data, vres, tres>>

Next ==
    \E c \in Calls : Call(c) \/ RuleSettles(c) \/ ApplySettles(c)

Spec == Init /\ [][Next]_vars

\* two process calls on the same processor, overlapping in time
ConcItems(vt) == {it \in ProcItems(vt) : it.val < 2 /\ it.id # ""}

ConcRuleLists ==
    {rs \in RuleLists(MaxRules) : \A a \in 1 .. Len(rs) : rs[a] \in {"inc", "boom"}}

InitConc ==
    /\ InitProcessor(ConcRuleLists)
    /\ data \in [Calls -> SeqsUpTo(ConcItems(variant), MaxLenConc)]
    /\ pc = [c \in Calls |-> "ready"]

SpecConc == InitConc /\ [][Next]_vars

\* validate or transform called directly, once, on a fresh processor
InitPure ==
    /\ InitProcessor(RuleLists(MaxRules))
    /\ data = [c \in Calls |-> <<>>]
    /\ pc = [c \in Calls |-> "unused"]

DoValidate(item) ==
    /\ ~vres.called /\ ~tres.called
    /\ vres' = [called |-> TRUE, item |-> item,
                out |-> Validate(variant, validator, item)]
    /\ UNCHANGED <<variant, validator, businessRules, data, pc, idx, pending,
                   processedItem, settled, processed, errors, result, log, tres>>

DoTransform(items, mapper) ==
    /\ ~vres.called /\ ~tres.called
    /\ tres' = [called |-> TRUE, items |-> items, mapper |-> mapper,
                out |-> Transform(items, mapper)]
    /\ UNCHANGED <<variant, validator, businessRules, data, pc, idx, pending,
                   processedItem, settled, processed, errors, result, log, vres>>

NextPure ==
    \/ \E item \in AllItems(variant) : DoValidate(item)
    \/ \E items \in SeqsUpTo(ProcItems(variant), MaxLen), mapper \in Mappers :
           DoTransform(items, mapper)

SpecPure == InitPure /\ [][NextPure]_vars

\* ------------------------------------------------------ reference notions
\* rule_n(... rule_2(rule_1(item)) ...), stopping at the first fault
RECURSIVE Pipeline(_, _)
Pipeline(rules, item) ==
    IF rules = <<>> THEN [ok |-> TRUE, value |-> item, fault |-> NoFault]
    ELSE LET o == RuleApply(Head(rules), item)
         IN  IF o.ok THEN Pipeline(Tail(rules), o.value) ELSE o

MinOf(S) == CHOOSE m \in S : \A x \in S : m <= x

\* the entries of f at the positions in S, in increasing order of position
RECURSIVE AtIndices(_, _)
AtIndices(f, S) ==
    IF S = {} THEN <<>> ELSE <<f[MinOf(S)]>> \o AtIndices(f, S \ {MinOf(S)})

ItemsOf(errs) == [j \in 1 .. Len(errs) |-> errs[j].item]

\* positions of d that pass the validation step of process
PassIdx(d) ==
    {i \in 1 .. Len(d) :
        LET v == ProcessValidation(variant, validator, d[i])
        IN  ~v.threw /\ v.isValid}

\* positions of d that pass validation and on which some rule faults
FaultIdx(d) == {i \in PassIdx(d) : ~Pipeline(businessRules, d[i]).ok}

\* positions of d that pass validation and all rules
GoodIdx(d) == PassIdx(d) \ FaultIdx(d)

Piped(d) == [i \in 1 .. Len(d) |-> Pipeline(businessRules, d[i]).value]

Finished(c) == pc[c] \in {"returned", "rejected"}

\* ------------------------------------------------------------------ claims
\* C1: when process(items) returns, processed and errors are an
\* order-preserving partition of the input: some set S of positions went to
\* processed (transformed by the rules) and exactly the others to errors
\* (with the original item), both in input order.
C1_Partition ==
    pc[1] = "returned" =>
        \E S \in SUBSET (1 .. Len(data[1])) :
            /\ result[1].processed = AtIndices(Piped(data[1]), S)
            /\ ItemsOf(result[1].errors) = AtIndices(data[1], (1 .. Len(data[1])) \ S)

C1_Witness ==
    /\ pc[1] = "returned"
    /\ Len(data[1]) = 3
    /\ Len(result[1].processed) = 1
    /\ Len(result[1].errors) = 2
    /\ result[1].errors[1].item # result[1].errors[2].item
    /\ result[1].errors[1].item = data[1][1]
    /\ result[1].errors[2].item = data[1][3]

\* C2: the summary counts are total = length of the input, successful =
\* length of processed, failed = length of errors, and successful + failed =
\* total; for the empty input all are 0 and both lists are empty.
C2_Summary ==
    pc[1] = "returned" =>
        /\ result[1].summary.total = Len(data[1])
        /\ result[1].summary.successful = Len(result[1].processed)
        /\ result[1].summary.failed = Len(result[1].errors)
        /\ result[1].summary.successful + result[1].summary.failed
               = result[1].summary.total
        /\ data[1] = <<>> =>
               /\ result[1].summary = [total |-> 0, successful |-> 0, failed |-> 0]
               /\ result[1].processed = <<>>
               /\ result[1].errors = <<>>

C2_Witness ==
    /\ pc[1] = "returned"
    /\ result[1].summary.successful = 2
    /\ result[1].summary.failed = 1

\* C3: process never raises: whatever fault handling an item raises, the
\* call ends by returning a result, never by rejecting.
C3_NeverRaises == \A c \in Calls : pc[c] # "rejected"

\* C4: process agrees with validate(item): every item validate finds
\* invalid is in errors with VALIDATION_ERROR and the joined validate
\* messages, and processed holds only (transformed) items validate finds
\* valid; no item validate finds valid is recorded with VALIDATION_ERROR.
C4_ProcessUsesValidate ==
    pc[1] = "returned" =>
        /\ \A i \in 1 .. Len(data[1]) :
               LET v == Validate(variant, validator, data[1][i])
               IN  (~v.threw /\ ~v.isValid) =>
                       ValidationError(data[1][i], v.errors)
                           \in {result[1].errors[j] : j \in 1 .. Len(result[1].errors)}
        /\ \E S \in SUBSET {i \in 1 .. Len(data[1]) :
                               Validate(variant, validator, data[1][i]).isValid} :
               result[1].processed = AtIndices(Piped(data[1]), S)
        /\ \A j \in 1 .. Len(result[1].errors) :
               LET e == result[1].errors[j]
                   v == Validate(variant, validator, e.item)
               IN  (e.code = "VALIDATION_ERROR") => (~v.threw /\ ~v.isValid)

\* C5: if a rule faults on a validated item, process records exactly one
\* entry for that item, with code PROCESSING_ERROR, the fault's message and
\* the original item; nothing derived from the item is in processed, and the
\* later items are still handled.
C5_RuleFaultRecorded ==
    Finished(1) =>
        \A i \in FaultIdx(data[1]) :
            LET before == Cardinality((1 .. (i - 1)) \ GoodIdx(data[1]))
            IN  /\ Len(errors[1]) > before
                /\ errors[1][before + 1]
                       = ProcessingError(data[1][i],
                                         Pipeline(businessRules, data[1][i]).fault)
                /\ processed[1] = AtIndices(Piped(data[1]), GoodIdx(data[1]))
                /\ Len(processed[1]) + Len(errors[1]) = Len(data[1])

\* the rules started for item i of call c, in the order they were started
StartsOf(c, i) ==
    LET starts == SelectSeq(log[c], LAMBDA e : e.ev = "start" /\ e.i = i)
    IN  [j \in 1 .. Len(starts) |-> starts[j].k]

\* C6: for every item that passes validation and all rules, the value in
\* processed is rule_n(...rule_1(item)...) in declaration order: each rule
\* was applied once, in order, to the previous rule's output; with no rules
\* the value is the item.
C6_RulesComposeInOrder ==
    /\ processed[1]
           = AtIndices(Piped(data[1]), GoodIdx(data[1]) \cap (1 .. (idx[1] - 1)))
    /\ \A p \in 1 .. Len(log[1]) :
           (log[1][p].ev = "final" /\ log[1][p].to = "processed" /\ variant = "entity")
               => StartsOf(1, log[1][p].i) = [k \in 1 .. Len(businessRules) |-> k]

C6_Witness ==
    /\ pc[1] = "returned"
    /\ businessRules = <<"inc", "dbl">>
    /\ Len(result[1].processed) = 2
    /\ result[1].processed[1].val # result[1].processed[2].val
    /\ Pipeline(<<"dbl", "inc">>, data[1][1]).value # result[1].processed[1]

\* C7: validate(item) is valid exactly when every structural check passes
\* and customValidate(item) reports isValid = true, whatever error strings
\* the custom outcome carries.
C7_ValidIffBothPass ==
    (vres.called /\ ~vres.out.threw) =>
        (vres.out.isValid <=>
            /\ StructuralErrors(variant, vres.item) = <<>>
            /\ CustomValidate(validator, vres.item).isValid)

\* C8: transform(items, f) has the length of items and f(items[i]) at every
\* position i, whatever the validator and the rules of the processor.
C8_TransformIsMap ==
    (tres.called /\ ~tres.out.threw) =>
        /\ Len(tres.out.value) = Len(tres.items)
        /\ \A i \in 1 .. Len(tres.items) :
               tres.out.value[i] = MapperApply(tres.mapper, tres.items[i]).value

C8_Witness ==
    /\ tres.called
    /\ ~tres.out.threw
    /\ Len(tres.items) = 3
    /\ tres.items[1] # tres.items[2]
    /\ Validate(variant, validator, tres.items[2]).isValid = FALSE
    /\ businessRules # <<>>

\* C9: within one call, items are handled one at a time in input order:
\* validation or a rule of item j starts only after every earlier item was
\* appended to processed or errors; rule k+1 starts only after rule k
\* settled; at most one rule application is pending.
C9_OneAtATime ==
    /\ Cardinality(pending[1]) <= 1
    /\ \A p \in 1 .. Len(log[1]) :
           LET e == log[1][p]
           IN  /\ e.ev \in {"validate", "start"} =>
                      \A i \in 1 .. (e.i - 1) :
                          \E q \in 1 .. (p - 1) :
                              log[1][q].ev = "final" /\ log[1][q].i = i
               /\ (e.ev = "start" /\ e.k > 1) =>
                      \E q \in 1 .. (p - 1) : log[1][q] = Ev("settle", e.i, e.k - 1, "")
               /\ e.ev = "start" =>
                      Cardinality({q \in 1 .. p : log[1][q].ev = "start"})
                          - Cardinality({q \in 1 .. p : log[1][q].ev = "settle"}) = 1

C9_Witness ==
    /\ pc[1] = "awaitRule"
    /\ idx[1] = 2
    /\ pending[1] = {2}
    /\ Len(processed[1]) = 1

\* a call run to its end with nothing else running
RECURSIVE RunAlone(_, _)
RunAlone(L, d) ==
    IF L.pc = "awaitRule" THEN RunAlone(RuleSettled(L, businessRules), d)
    ELSE IF L.pc = "awaitApply"
    THEN RunAlone(ApplySettled(L, d, variant, validator, businessRules), d)
    ELSE L

Alone(d) == RunAlone(StartProcess(d, variant, validator, businessRules), d)

IsPrefix(a, b) == Len(a) <= Len(b) /\ a = SubSeq(b, 1, Len(a))

\* C10: two overlapping process calls on one processor do not interfere:
\* each accumulates into its own lists, and each ends with the result it
\* would produce run alone, under every interleaving.
C10_NoInterference ==
    \A c \in Calls :
        /\ IsPrefix(processed[c], Alone(data[c]).processed)
        /\ IsPrefix(errors[c], Alone(data[c]).errors)
        /\ Finished(c) => result[c] = Alone(data[c]).result

C10_Witness ==
    /\ pc[1] = "awaitRule"
    /\ pc[2] = "awaitApply"
    /\ Len(processed[1]) = 1
    /\ Len(errors[2]) = 1
    /\ data[1] # data[2]

====
